---- MODULE Spec2Model ----
(***************************************************************************)
(* Model of internal/matchers/matchers.go: the Gomega matcher EqualObject  *)
(* that compares two Kubernetes objects through a JSON merge patch which   *)
(* is filtered by an allow-list (filterDiffMap) and an ignore-list         *)
(* (removePath).                                                           *)
(*                                                                         *)
(* A JSON value is a tree: a leaf is the record [leaf |-> v], an object is *)
(* a function from a subset of Keys to trees (the Go                       *)
(* map[string]interface{}).  A path is a sequence of strings, a path list  *)
(* a sequence of paths ([][]string).                                       *)
(***************************************************************************)
EXTENDS Integers, Sequences, FiniteSets, TLC

\* ---------------------------------------------------------------- bounds
\* Field names that occur in objects and deltas.
Keys == {"a", "b"}
\* Segments of an allow path: the field names, the wildcard, the empty string.
AllowSegs == {"a", "b", "*", ""}
\* Segments of an ignore path.
IgnoreSegs == {"a", "b"}

\* Largest number of keys (over all levels) of a delta given to the filter.
MaxEntries == 3
\* Size of an allow-list of the allow pass: sum over its paths of 1 + length.
MaxAllowSize == 5
\* Size of an ignore-list of the ignore pass: sum over its paths of 1 + length.
MaxIgnoreSize == 6
\* The same sizes for the lists of the combined filter (allow, then ignore).
MaxFilterAllowSize == 2
MaxFilterIgnoreSize == 3
\* A Matcher used for one Match call: largest number of keys of an object,
\* and the size of the IgnorePaths option.
MaxObjEntries == 2
MaxOptIgnoreSize == 3
\* A Matcher used for any number of Match calls: the same two bounds.
MaxCallObjEntries == 1
MaxCallIgnoreSize == 2
\* The AllowPaths options a Matcher is built with: none, one field, one
\* field followed by an empty path.
AllowOptions == {<<>>, << <<"a">> >>, << <<"a">>, <<>> >>}

\* ----------------------------------------------------------------- trees
IsLeaf(n) == "leaf" \in DOMAIN n
IsMap(n) == ~IsLeaf(n)
LeafOf(v) == [leaf |-> v]
EmptyMap == [k \in {} |-> LeafOf("v")]

RECURSIVE SumOver(_, _)
SumOver(f, S) ==
  IF S = {} THEN 0
  ELSE LET k == CHOOSE x \in S : TRUE IN f[k] + SumOver(f, S \ {k})

\* Number of keys of a tree, over all its levels.
RECURSIVE Entries(_)
Entries(n) ==
  IF IsLeaf(n) THEN 0
  ELSE Cardinality(DOMAIN n) + SumOver([k \in DOMAIN n |-> Entries(n[k])], DOMAIN n)

\* The objects with at most n keys whose leaves are drawn from leaves.
RECURSIVE MapsUpTo(_, _)
MapsUpTo(n, leaves) ==
  IF n = 0 THEN {EmptyMap}
  ELSE LET sub == {LeafOf(v) : v \in leaves} \cup MapsUpTo(n - 1, leaves)
           all == UNION {[D -> sub] : D \in SUBSET Keys}
       IN {m \in all : Entries(m) <= n}

\* The paths over segs of length at most n, and the path lists of a size at
\* most n (a path of length l counts 1 + l).
RECURSIVE PathsUpTo(_, _)
PathsUpTo(n, segs) ==
  IF n = 0 THEN {<<>>}
  ELSE LET shorter == PathsUpTo(n - 1, segs)
       IN shorter \cup {<<s>> \o p : s \in segs, p \in {q \in shorter : Len(q) = n - 1}}

RECURSIVE PathListsUpTo(_, _)
PathListsUpTo(n, segs) ==
  IF n = 0 THEN {<<>>}
  ELSE {<<>>} \cup
       UNION {{<<p>> \o l : l \in PathListsUpTo(n - 1 - Len(p), segs)} :
              p \in PathsUpTo(n - 1, segs)}

\* ------------------------------------------------------ filterDiffMap
\* A run-time panic: the index expression path[0] on an empty path, IsNil on
\* the zero reflect.Value.
Panic == [panic |-> TRUE]
IsPanic(r) == "panic" \in DOMAIN r

\* Lines 214-219: the loop `for _, path := range allowPaths` reads path[0] of
\* every path up to the first one whose first segment is k.
AllowedLoopPanics(k, allowPaths) ==
  \E i \in 1..Len(allowPaths) :
    /\ Len(allowPaths[i]) = 0
    /\ \A j \in 1..(i - 1) : Len(allowPaths[j]) = 0 \/ allowPaths[j][1] # k

IsAllowed(k, allowPaths) ==
  \E i \in 1..Len(allowPaths) : Len(allowPaths[i]) > 0 /\ allowPaths[i][1] = k

\* Lines 230-235: the tails of the paths of length > 1 whose first segment is
\* k, in list order.
NestedPaths(k, allowPaths) ==
  LET Deeper(p) == Len(p) > 1 /\ p[1] = k
      sel == SelectSeq(allowPaths, Deeper)
  IN [i \in 1..Len(sel) |-> Tail(sel[i])]

\* Lines 231-232 read path[0] of every path of the list.
NestedLoopPanics(allowPaths) ==
  \E i \in 1..Len(allowPaths) : Len(allowPaths[i]) = 0

RECURSIVE filterDiffMap(_, _)
\* What the loop body does with key k: "panic", "delete", or the kept value.
FilterKey(diffMap, allowPaths, k) ==
  IF AllowedLoopPanics(k, allowPaths) THEN Panic
  ELSE IF ~IsAllowed(k, allowPaths) THEN [delete |-> TRUE]
  ELSE IF IsLeaf(diffMap[k]) THEN [keep |-> diffMap[k]]
  ELSE IF NestedLoopPanics(allowPaths) THEN Panic
  ELSE IF Len(NestedPaths(k, allowPaths)) = 0 THEN [keep |-> diffMap[k]]
  ELSE LET nestedMap == filterDiffMap(diffMap[k], NestedPaths(k, allowPaths))
       IN IF IsPanic(nestedMap) THEN Panic
          ELSE IF DOMAIN nestedMap = {} THEN [delete |-> TRUE]
          ELSE [keep |-> nestedMap]

\* filterDiffMap limits the diffMap to the paths of allowPaths; the result is
\* the map after the call, or Panic.
filterDiffMap(diffMap, allowPaths) ==
  IF Len(allowPaths) = 1 /\ Len(allowPaths[1]) = 0 THEN Panic
  ELSE IF Len(allowPaths) = 1 /\ allowPaths[1][1] = "*" THEN diffMap
  ELSE LET out == [k \in DOMAIN diffMap |-> FilterKey(diffMap, allowPaths, k)]
       IN IF \E k \in DOMAIN diffMap : IsPanic(out[k]) THEN Panic
          ELSE [k \in {x \in DOMAIN diffMap : "keep" \in DOMAIN out[x]} |-> out[k].keep]

\* ---------------------------------------------------------- removePath
RECURSIVE removePath(_, _)

\* removePath that does not descend into nested maps.
removePath_topOnly(diffMap, path) ==
  IF Len(path) = 1
    THEN [k \in DOMAIN diffMap \ {path[1]} |-> diffMap[k]]
    ELSE diffMap

\* removePath that leaves the emptied nested map in place.
removePath_noPrune(diffMap, path) ==
  IF Len(path) = 0 THEN diffMap
  ELSE IF Len(path) = 1
    THEN [k \in DOMAIN diffMap \ {path[1]} |-> diffMap[k]]
  ELSE IF path[1] \notin DOMAIN diffMap \/ IsLeaf(diffMap[path[1]]) THEN diffMap
  ELSE [diffMap EXCEPT ![path[1]] = removePath(diffMap[path[1]], Tail(path))]

\* removePath that tests the nested map for emptiness before the recursive
\* call instead of after it.
removePath_pruneBefore(diffMap, path) ==
  IF Len(path) = 0 THEN diffMap
  ELSE IF Len(path) = 1
    THEN [k \in DOMAIN diffMap \ {path[1]} |-> diffMap[k]]
  ELSE IF path[1] \notin DOMAIN diffMap \/ IsLeaf(diffMap[path[1]]) THEN diffMap
  ELSE IF DOMAIN diffMap[path[1]] = {}
    THEN [k \in DOMAIN diffMap \ {path[1]} |-> diffMap[k]]
  ELSE [diffMap EXCEPT ![path[1]] = removePath(diffMap[path[1]], Tail(path))]

\* removePath excludes the path from the diff: lines 248-269.
removePath(diffMap, path) ==
  IF Len(path) = 0 THEN diffMap
  ELSE IF Len(path) = 1
    THEN [k \in DOMAIN diffMap \ {path[1]} |-> diffMap[k]]
  ELSE IF path[1] \notin DOMAIN diffMap \/ IsLeaf(diffMap[path[1]]) THEN diffMap
  ELSE LET nestedMap == removePath(diffMap[path[1]], Tail(path))
       IN IF DOMAIN nestedMap = {}
            THEN [k \in DOMAIN diffMap \ {path[1]} |-> diffMap[k]]
            ELSE [diffMap EXCEPT ![path[1]] = nestedMap]

\* Lines 191-193: removePath for every path of ignorePaths, in list order.
RECURSIVE removePaths(_, _)
removePaths(diffMap, ignorePaths) ==
  IF Len(ignorePaths) = 0 THEN diffMap
  ELSE removePaths(removePath(diffMap, Head(ignorePaths)), Tail(ignorePaths))

\* -------------------------------------------------------------- encoding
\* json.Marshal of a map: the keys in sorted order, no white space.  The
\* document is a sequence of tokens.
KeyOrder == <<"a", "b">>

RECURSIVE Marshal(_)
RECURSIVE MarshalMembers(_, _, _)
MarshalMembers(m, i, first) ==
  IF i > Len(KeyOrder) THEN <<>>
  ELSE IF KeyOrder[i] \notin DOMAIN m THEN MarshalMembers(m, i + 1, first)
  ELSE (IF first THEN <<>> ELSE <<",">>) \o <<KeyOrder[i], ":">>
         \o Marshal(m[KeyOrder[i]]) \o MarshalMembers(m, i + 1, FALSE)

Marshal(n) ==
  IF IsLeaf(n) THEN <<n.leaf>>
  ELSE <<"{">> \o MarshalMembers(n, 1, TRUE) \o <<"}">>

\* A nil []byte.
NilBytes == <<>>
\* A nil error.
NilErr == "nil"

\* ------------------------------------------------------------ filterDiff
\* filterDiff on the decoded diff: the allow pass, the ignore pass, then the
\* encoding.  The result is Panic or the pair (diff, err).
filterDiff(diffDoc, allow, ignore) ==
  LET allowed == filterDiffMap(diffDoc, allow)
  IN IF IsPanic(allowed) THEN Panic
     ELSE [diff |-> Marshal(removePaths(allowed, ignore)), err |-> NilErr]

\* ------------------------------------------------------ merge patch
\* jsonpatch.CreateMergePatch on two decoded documents: a key of b that is
\* new or whose value differs carries b's value, two objects are compared
\* key by key and reported when their difference is not empty, a key of a
\* that b lacks carries null.
RECURSIVE CreateMergePatch(_, _)
CreateMergePatch(a, b) ==
  LET Changed(k) ==
        \/ k \notin DOMAIN a
        \/ IsLeaf(a[k]) # IsLeaf(b[k])
        \/ IsLeaf(a[k]) /\ a[k] # b[k]
        \/ IsMap(a[k]) /\ IsMap(b[k]) /\ DOMAIN CreateMergePatch(a[k], b[k]) # {}
      keys == {k \in DOMAIN b : Changed(k)} \cup (DOMAIN a \ DOMAIN b)
  IN [k \in keys |->
        IF k \notin DOMAIN b THEN LeafOf("null")
        ELSE IF k \in DOMAIN a /\ IsMap(a[k]) /\ IsMap(b[k])
          THEN CreateMergePatch(a[k], b[k])
        ELSE b[k]]

\* ---------------------------------------------------------------- objects
\* What a runtime.Object or interface{} argument can hold: the nil interface,
\* a nil pointer, a pointer to an object (json is its json.Marshal document),
\* a pointer to an object that json.Marshal rejects.
NilInterface == [kind |-> "nilInterface"]
NilPointer == [kind |-> "nilPointer"]
Unmarshalable == [kind |-> "unmarshalable"]
PointerTo(doc) == [kind |-> "pointer", json |-> doc]

ObjectsOf(docs) ==
  {NilInterface, NilPointer, Unmarshalable} \cup {PointerTo(d) : d \in docs}
Objects == ObjectsOf(MapsUpTo(MaxObjEntries, {"v", "w"}))
CallObjects == ObjectsOf(MapsUpTo(MaxCallObjEntries, {"v"}))

\* reflect.ValueOf(x).IsNil(): panics on the zero Value that ValueOf returns
\* for a nil interface.
IsNilPanics(x) == x.kind = "nilInterface"
IsNil(x) == x.kind = "nilPointer"

\* ---------------------------------------------------------------- options
AllowPathsOpt(l) == [type |-> "AllowPaths", paths |-> l]
IgnorePathsOpt(l) == [type |-> "IgnorePaths", paths |-> l]

\* ApplyToMatcher appends the option's paths to the list of its type.
ApplyToMatcher(opt, o) ==
  IF opt.type = "AllowPaths"
    THEN [o EXCEPT !.allowPaths = o.allowPaths \o opt.paths]
    ELSE [o EXCEPT !.ignorePaths = o.ignorePaths \o opt.paths]

RECURSIVE ApplyOptions(_, _)
ApplyOptions(o, opts) ==
  IF Len(opts) = 0 THEN o
  ELSE ApplyOptions(ApplyToMatcher(Head(opts), o), Tail(opts))

\* EqualObject: the options applied to empty MatchOptions, an empty allow-list
\* replaced by the wildcard list.
EqualObject(opts) ==
  LET o == ApplyOptions([allowPaths |-> <<>>, ignorePaths |-> <<>>], opts)
  IN IF Len(o.allowPaths) = 0 THEN [o EXCEPT !.allowPaths = << <<"*">> >>] ELSE o

\* ------------------------------------------------------------------ state
VARIABLES
  original,     \* Matcher.original
  diff,         \* Matcher.diff
  allowPaths,   \* Matcher.options.allowPaths; filterDiff's allowPaths
  ignorePaths,  \* Matcher.options.ignorePaths; filterDiff's ignorePaths
  actual,       \* the argument of the latest Match call
  ret,          \* what the latest call returned: Panic or its results
  rawDiff,      \* filterDiff: the decoded diff it was given
  diffMap,      \* filterDiff: its local diffMap
  idx,          \* filterDiff: the index of the next ignore path
  pc            \* filterDiff: its position

vars == <<original, diff, allowPaths, ignorePaths, actual, ret, rawDiff, diffMap, idx, pc>>
matcherVars == <<original, diff, actual>>
frameVars == <<rawDiff, diffMap, idx, pc>>

NoCall == [none |-> TRUE]

\* ------------------------------------------------------- filterDiff steps
\* The state of filterDiff after json.Unmarshal, for the given inputs.
FilterInit(deltas, allowLists, ignoreLists) ==
  /\ rawDiff \in deltas
  /\ diffMap = rawDiff
  /\ allowPaths \in allowLists
  /\ ignorePaths \in ignoreLists
  /\ idx = 1
  /\ pc = "allow"
  /\ ret = NoCall
  /\ original = NoCall
  /\ actual = NoCall
  /\ diff = NilBytes

\* Line 188: filterDiffMap(diffMap, allowPaths).
AllowPass ==
  /\ pc = "allow"
  /\ LET r == filterDiffMap(diffMap, allowPaths)
     IN IF IsPanic(r)
          THEN /\ pc' = "panic"
               /\ ret' = Panic
               /\ UNCHANGED diffMap
          ELSE /\ pc' = "ignore"
               /\ diffMap' = r
               /\ UNCHANGED ret
  /\ UNCHANGED <<matcherVars, allowPaths, ignorePaths, rawDiff, idx>>

\* Lines 191-193: one iteration of the loop over ignorePaths.
IgnoreStep ==
  /\ pc = "ignore"
  /\ idx <= Len(ignorePaths)
  /\ diffMap' = removePath(diffMap, ignorePaths[idx])
  /\ idx' = idx + 1
  /\ UNCHANGED <<matcherVars, allowPaths, ignorePaths, rawDiff, pc, ret>>

\* Lines 196-200: the map encoded and returned.
Return ==
  /\ pc = "ignore"
  /\ idx > Len(ignorePaths)
  /\ pc' = "done"
  /\ ret' = [diff |-> Marshal(diffMap), err |-> NilErr]
  /\ UNCHANGED <<matcherVars, allowPaths, ignorePaths, rawDiff, diffMap, idx>>

FilterNext == AllowPass \/ IgnoreStep \/ Return

Deltas == MapsUpTo(MaxEntries, {"v"})
WildcardList == << <<"*">> >>

\* The allow pass on every delta and allow-list within the bounds.
InitAllow ==
  FilterInit(Deltas, PathListsUpTo(MaxAllowSize, AllowSegs), {<<>>, << <<"a">> >>})
SpecAllow == InitAllow /\ [][FilterNext]_vars

\* The ignore pass (default allow-list) on every delta and ignore-list.
InitIgnore ==
  FilterInit(Deltas, {WildcardList}, PathListsUpTo(MaxIgnoreSize, IgnoreSegs))
SpecIgnore == InitIgnore /\ [][FilterNext]_vars

\* Both passes.
InitFilter ==
  FilterInit(Deltas, PathListsUpTo(MaxFilterAllowSize, AllowSegs),
             PathListsUpTo(MaxFilterIgnoreSize, IgnoreSegs))
SpecFilter == InitFilter /\ [][FilterNext]_vars

\* ------------------------------------------------------------- the Matcher
\* calculateDiff: both objects encoded, the merge patch, the filter.
calculateDiff(orig, act, allow, ignore) ==
  IF orig.kind = "unmarshalable" \/ act.kind = "unmarshalable"
    THEN [diff |-> NilBytes, err |-> "json"]
    ELSE filterDiff(CreateMergePatch(orig.json, act.json), allow, ignore)

\* Match that returns on an error of calculateDiff before it assigns m.diff.
MatchResult_keepOnError(m, act) ==
  IF IsNilPanics(act) \/ IsNilPanics(m.original)
    THEN [diff |-> m.diff, ret |-> Panic]
  ELSE IF IsNil(act) /\ IsNil(m.original)
    THEN [diff |-> m.diff, ret |-> [success |-> TRUE, err |-> NilErr]]
  ELSE IF IsNil(act) \/ IsNil(m.original)
    THEN [diff |-> m.diff, ret |-> [success |-> FALSE, err |-> "can not compare an object with a nil"]]
  ELSE LET r == calculateDiff(m.original, act, m.allowPaths, m.ignorePaths)
       IN IF IsPanic(r) THEN [diff |-> m.diff, ret |-> Panic]
          ELSE IF r.err # NilErr
            THEN [diff |-> m.diff, ret |-> [success |-> FALSE, err |-> r.err]]
          ELSE [diff |-> r.diff,
                ret |-> [success |-> (r.diff = <<"{", "}">>), err |-> NilErr]]

\* Match, lines 81-101: the pair (m.diff after the call, what the call
\* returned).  Lines 85-86 panic on a nil interface; the nil branches return
\* before line 96 assigns m.diff.
MatchResult(m, act) ==
  IF IsNilPanics(act) \/ IsNilPanics(m.original)
    THEN [diff |-> m.diff, ret |-> Panic]
  ELSE IF IsNil(act) /\ IsNil(m.original)
    THEN [diff |-> m.diff, ret |-> [success |-> TRUE, err |-> NilErr]]
  ELSE IF IsNil(act) \/ IsNil(m.original)
    THEN [diff |-> m.diff, ret |-> [success |-> FALSE, err |-> "can not compare an object with a nil"]]
  ELSE LET r == calculateDiff(m.original, act, m.allowPaths, m.ignorePaths)
       IN IF IsPanic(r) THEN [diff |-> m.diff, ret |-> Panic]
          ELSE IF r.err # NilErr
            THEN [diff |-> r.diff, ret |-> [success |-> FALSE, err |-> r.err]]
          ELSE [diff |-> r.diff,
                ret |-> [success |-> (r.diff = <<"{", "}">>), err |-> NilErr]]

Self == [original |-> original, diff |-> diff,
         allowPaths |-> allowPaths, ignorePaths |-> ignorePaths]

Match(act) ==
  /\ actual' = act
  /\ diff' = MatchResult(Self, act).diff
  /\ ret' = MatchResult(Self, act).ret
  /\ UNCHANGED <<original, allowPaths, ignorePaths, frameVars>>

\* FailureMessage and NegatedFailureMessage print string(m.diff) and the two
\* objects; they change nothing.
FailureMessage(act) == <<diff, act, original>>

\* A Matcher as EqualObject(original, AllowPaths(al), IgnorePaths(ig)) returns
\* it, for original among objects and ig among ignoreOpts.
MatcherInit(objects, ignoreOpts) ==
  /\ original \in objects
  /\ \E al \in AllowOptions, ig \in ignoreOpts :
       LET o == EqualObject(<<AllowPathsOpt(al), IgnorePathsOpt(ig)>>)
       IN allowPaths = o.allowPaths /\ ignorePaths = o.ignorePaths
  /\ diff = NilBytes
  /\ actual = NoCall
  /\ ret = NoCall
  /\ rawDiff = EmptyMap
  /\ diffMap = EmptyMap
  /\ idx = 0
  /\ pc = "idle"

\* One Matcher, any number of Match calls.
Init == MatcherInit(CallObjects, PathListsUpTo(MaxCallIgnoreSize, IgnoreSegs))
Next == \E act \in CallObjects : Match(act)
Spec == Init /\ [][Next]_vars

\* A Matcher built for one assertion: one Match call.
InitFirstMatch == MatcherInit(Objects, PathListsUpTo(MaxOptIgnoreSize, IgnoreSegs))
FirstMatch == ret = NoCall /\ \E act \in Objects : Match(act)
SpecFirstMatch == InitFirstMatch /\ [][FirstMatch]_vars

\* ================================================================= claims
RECURSIVE HasEntry(_, _)
\* The tree d has an entry at the location p, following p's segments through
\* nested maps.
HasEntry(d, p) ==
  /\ Len(p) >= 1
  /\ IsMap(d)
  /\ p[1] \in DOMAIN d
  /\ (Len(p) = 1 \/ HasEntry(d[p[1]], Tail(p)))

IsProperPrefix(p, q) ==
  Len(p) < Len(q) /\ \A i \in 1..Len(p) : p[i] = q[i]

\* The state right after the allow pass returned.
AfterAllowPass == pc = "ignore" /\ idx = 1

\* C1: when the allow-list holds both the one-segment path [x] and a deeper
\* path starting with x, and delta[x] is a nested map, the allow pass keeps
\* the whole subtree delta[x] unchanged.
C1_LeafPrecedence ==
  AfterAllowPass =>
    \A x \in DOMAIN rawDiff :
      ( /\ IsMap(rawDiff[x])
        /\ \E i \in 1..Len(allowPaths) : allowPaths[i] = <<x>>
        /\ \E j \in 1..Len(allowPaths) :
             Len(allowPaths[j]) > 1 /\ allowPaths[j][1] = x )
      => (x \in DOMAIN diffMap /\ diffMap[x] = rawDiff[x])

\* C2: for an allow-list other than the single one-segment path ["*"], after
\* the allow pass every top-level key of the delta that no allow path starts
\* with is absent.
C2_AllowRestriction ==
  (AfterAllowPass /\ allowPaths # WildcardList) =>
    \A k \in DOMAIN rawDiff :
      (~\E i \in 1..Len(allowPaths) :
          Len(allowPaths[i]) >= 1 /\ allowPaths[i][1] = k)
      => k \notin DOMAIN diffMap

\* C3: the delta filterDiff returns has no entry at the location of any
\* ignore path of length >= 1, whatever the allow-list.
C3_IgnoreWins ==
  pc = "done" =>
    /\ ret = [diff |-> Marshal(diffMap), err |-> NilErr]
    /\ \A i \in 1..Len(ignorePaths) :
         Len(ignorePaths[i]) >= 1 => ~HasEntry(diffMap, ignorePaths[i])

\* C3's case: filterDiff returned, the allow-list is not the wildcard, and a
\* nested ignore path named an entry that the allow pass had kept.
C3_Witness ==
  /\ pc = "done"
  /\ allowPaths # WildcardList
  /\ \E i \in 1..Len(ignorePaths) :
       /\ Len(ignorePaths[i]) >= 2
       /\ HasEntry(filterDiffMap(rawDiff, allowPaths), ignorePaths[i])

\* C5: the filter never fails: whatever the delta, the allow-list and the
\* ignore-list, filterDiff does not abort.
C5_FilterNeverFails == pc # "panic"

\* C7: applying the ignore-list a second time to the delta that the ignore
\* pass produced changes nothing.
C7_IgnoreIdempotent ==
  pc = "done" => removePaths(diffMap, ignorePaths) = diffMap

\* C7's case: an ignore pass of at least two paths that changed the delta.
C7_Witness ==
  /\ pc = "done"
  /\ Len(ignorePaths) >= 2
  /\ diffMap # rawDiff
  /\ diffMap # EmptyMap

Permute(l, f) == [i \in 1..Len(l) |-> l[f[i]]]

\* C8: the ignore pass yields the same delta for every permutation of the
\* ignore-list.
C8_IgnoreOrderIndependent ==
  pc = "done" =>
    \A f \in Permutations(1..Len(ignorePaths)) :
      removePaths(rawDiff, Permute(ignorePaths, f)) = diffMap

\* C8's case: two paths of the list name the two entries of one nested map,
\* so that whichever removal comes second empties the shared parent.
C8_Witness ==
  /\ pc = "done"
  /\ diffMap # rawDiff
  /\ \E i, j \in 1..Len(ignorePaths) :
       /\ i # j
       /\ Len(ignorePaths[i]) = 2 /\ Len(ignorePaths[j]) = 2
       /\ ignorePaths[i][1] = ignorePaths[j][1]
       /\ ignorePaths[i][2] # ignorePaths[j][2]
       /\ HasEntry(rawDiff, ignorePaths[i]) /\ HasEntry(rawDiff, ignorePaths[j])
       /\ ignorePaths[i][1] \notin DOMAIN diffMap

\* C9: removePath of a path whose location does not exist in the delta
\* leaves the delta unchanged, also when a key on the way holds an empty
\* object.
C9_AbsentPathNoOp ==
  ( /\ pc = "ignore" /\ idx = 2
    /\ Len(ignorePaths[1]) >= 1
    /\ ~HasEntry(rawDiff, ignorePaths[1]) )
  => diffMap = rawDiff

BothPointers == original.kind = "pointer" /\ actual.kind = "pointer"
IsNilObject(x) == x.kind \in {"nilInterface", "nilPointer"}

\* C4: Match returns (true, nil) when the original and the candidate are
\* both nil, and (false, an error) when exactly one of them is.
C4_NilHandling ==
  ret # NoCall =>
    /\ (IsNilObject(original) /\ IsNilObject(actual))
         => ret = [success |-> TRUE, err |-> NilErr]
    /\ (IsNilObject(original) # IsNilObject(actual))
         => ("success" \in DOMAIN ret /\ ret.success = FALSE /\ ret.err # NilErr)

RECURSIVE SingleFieldAt(_, _)
\* The only difference of the delta d is the field at path f: every map on
\* the way holds one key.
SingleFieldAt(d, f) ==
  /\ Len(f) >= 1
  /\ IsMap(d)
  /\ DOMAIN d = {f[1]}
  /\ (Len(f) = 1 \/ SingleFieldAt(d[f[1]], Tail(f)))

\* C6: with the default allow-list, when the raw delta's only difference is
\* a single field at a path of the ignore-list, the filtered delta is the
\* empty object and Match returns (true, nil).
C6_EmptySubtreePruning ==
  ( /\ ret # NoCall
    /\ BothPointers
    /\ allowPaths = WildcardList
    /\ \E i \in 1..Len(ignorePaths) :
         SingleFieldAt(CreateMergePatch(original.json, actual.json), ignorePaths[i]) )
  => /\ diff = <<"{", "}">>
     /\ ret = [success |-> TRUE, err |-> NilErr]

\* C6's case: the ignored field lies in a nested map.
C6_Witness ==
  /\ ret # NoCall
  /\ BothPointers
  /\ allowPaths = WildcardList
  /\ \E i \in 1..Len(ignorePaths) :
       /\ Len(ignorePaths[i]) >= 2
       /\ SingleFieldAt(CreateMergePatch(original.json, actual.json), ignorePaths[i])
  /\ diff = <<"{", "}">>

ReachedDiff(o, a, r) == ~IsNilObject(o) /\ ~IsNilObject(a) /\ ~IsPanic(r)

====
